---- MODULE Spec2Model ----
(***************************************************************************)
(* A model of the icmp crate (src/src/lib.rs): the Internet checksum, the  *)
(* echo message codec (Response::decode and the encoding done in          *)
(* Icmp::send) and the echo session (Icmp::new, send, recv, data_mut).     *)
(*                                                                         *)
(* Byte buffers are sequences of integers 0..255.  Rust offsets are        *)
(* 0-based; At and Slice translate them.  A Rust panic (an index out of    *)
(* range, an unwrap of an Err) ends the program: st = "panicked" and       *)
(* fault names the place.                                                  *)
(***************************************************************************)
EXTENDS Integers, Sequences, FiniteSets, TLC

\* ------------------------------------------------------------ constants
DEFDATALEN == 56
MAXIPLEN == 60
MAXSEQ == 65535

\* ------------------------------------------------------------- bounds
\* Largest payload length given to Icmp::new as Some(n).
MaxLen == 2
\* The caller writes payload bytes at offsets below MaxWrite only.
MaxWrite == 1
\* Successful sends of one session in Spec (SpecWrap has MaxWrapSends).
MaxSends == 2
\* Successful sends of one session in SpecWrap: past the wraparound.
MaxWrapSends == 65540
\* Datagrams one recv call discards before the model stops feeding it.
MaxDiscard == 2
\* Longest buffer handed directly to checksum and Response::decode.
MaxBuf == 8

\* Byte values of the buffers handed directly to checksum and decode.
ByteVals == {0, 1, 255}
\* Byte values the caller writes into the payload buffer.
PayloadVals == {0, 255}
\* Addresses the resolver gives for the destination.
DstAddrs == {"198.51.100.7"}
\* Identifiers given to Icmp::new.
Idents == {4660, 65535}

\* ------------------------------------------------------- byte helpers
\* bytes[k], 0-based.
At(bytes, k) == bytes[k + 1]

\* &bytes[from..to], 0-based, to exclusive.
Slice(bytes, from, to) == SubSeq(bytes, from + 1, to)

\* vec![0; n]
Zeros(n) == [i \in 1..n |-> 0]

\* u16::from_be_bytes([hi, lo])
U16FromBe(hi, lo) == hi * 256 + lo

\* BufMut::put_u16 / u16::to_be_bytes: big-endian.
U16ToBe(x) == <<x \div 256, x % 256>>

\* ----------------------------------------------------------- checksum
\* Mutant of Word: the chunk read with from_le_bytes.
WordLe(bytes, i) == U16FromBe(At(bytes, 2 * i + 1), At(bytes, 2 * i))

\* The i-th chunk of bytes.chunks_exact(2), as u16::from_be_bytes.
Word(bytes, i) == U16FromBe(At(bytes, 2 * i), At(bytes, 2 * i + 1))

\* The index enumerate() gives the chunk that for_each leaves out.
SkipIndex == 1

\* Mutant of SumWords: no chunk is left out.
RECURSIVE SumAllWords(_, _)
SumAllWords(bytes, n) ==
    IF n = 0 THEN 0 ELSE SumAllWords(bytes, n - 1) + Word(bytes, n - 1)

\* The for_each over chunks_exact(2).enumerate(): the sum of the first n
\* chunks, the one at SkipIndex left out.  (The u32 sum cannot overflow
\* below 65537 chunks, far above every buffer of the model.)
RECURSIVE SumWords(_, _)
SumWords(bytes, n) ==
    IF n = 0 THEN 0
    ELSE SumWords(bytes, n - 1)
         + (IF n - 1 # SkipIndex THEN Word(bytes, n - 1) ELSE 0)

\* while sum >> 16 != 0 { sum = (sum >> 16) + (sum & 0xffff) }
RECURSIVE Fold(_)
Fold(sum) ==
    IF sum \div 65536 # 0 THEN Fold((sum \div 65536) + (sum % 65536)) ELSE sum

\* pub fn checksum(bytes: &[u8]) -> u16.  chunks_exact(2) yields
\* Len \div 2 chunks and drops a trailing odd byte; !sum as u16 of a folded
\* sum (below 65536) is 65535 - sum.
checksum(bytes) == 65535 - Fold(SumWords(bytes, Len(bytes) \div 2))

\* -------------------------------------------------------------- decode
\* Response::decode indexes bytes[0], bytes[1], bytes[2..4], bytes[4..6],
\* bytes[6..8] and bytes[8..] in this order; the first one out of range
\* panics.  All are in range exactly when the buffer holds 8 bytes.
DecodePanics(bytes) ==
    \/ Len(bytes) < 1
    \/ Len(bytes) < 2
    \/ Len(bytes) < 4
    \/ Len(bytes) < 6
    \/ Len(bytes) < 8

\* Mutant of decode: identifier and sequence read from each other's bytes.
decodeSwapped(bytes) ==
    [typ |-> At(bytes, 0),
     cod |-> At(bytes, 1),
     sum |-> U16FromBe(At(bytes, 2), At(bytes, 3)),
     idt |-> U16FromBe(At(bytes, 6), At(bytes, 7)),
     seq |-> U16FromBe(At(bytes, 4), At(bytes, 5)),
     dat |-> Slice(bytes, 8, Len(bytes))]

\* The Response that decode builds (for a buffer it does not panic on).
decode(bytes) ==
    [typ |-> At(bytes, 0),
     cod |-> At(bytes, 1),
     sum |-> U16FromBe(At(bytes, 2), At(bytes, 3)),
     idt |-> U16FromBe(At(bytes, 4), At(bytes, 5)),
     seq |-> U16FromBe(At(bytes, 6), At(bytes, 7)),
     dat |-> Slice(bytes, 8, Len(bytes))]

\* No Response (the value of rres.resp and call.resp when none was made).
NoResponse == [typ |-> 0, cod |-> 0, sum |-> 0, idt |-> 0, seq |-> 0, dat |-> <<>>]

\* ------------------------------------------------------------- state
VARIABLES
    st,        \* "start" (no session yet) | "open" | "err" | "panicked"
    fault,     \* "none", or the error or panic that ended construction or the program
    sockOpen,  \* a raw socket opened by Icmp::new is open
    dst,       \* Icmp.dst: the resolved destination address ("": no session)
    ver,       \* Icmp.ver: "V4" | "V6"
    typ,       \* Icmp.typ
    idt,       \* Icmp.idt
    seq,       \* Icmp.seq
    dat,       \* Icmp.dat, the payload buffer
    pc,        \* "idle" | "recv" (inside the loop of Icmp::recv)
    msg,       \* the buffer the last send handed to send_to (<<>>: none yet)
    sres,      \* what the last send returned
    nsent,     \* history: the number of sends that returned Ok
    sent,      \* history: what the last send encoded (sequence, payload, checksum)
    rres,      \* what the last recv returned
    ndisc,     \* datagrams the running recv call has read and discarded
    rgot,      \* history: the bytes recv_from stored of the datagram the last reply came from
    aiLive,    \* an addrinfo list obtained from getaddrinfo is not freed yet
    call       \* the last direct call of checksum or Response::decode

vars == <<st, fault, sockOpen, dst, ver, typ, idt, seq, dat, pc, msg, sres, nsent,
          sent, rres, ndisc, rgot, aiLive, call>>

sessionVars == <<dst, ver, typ, idt, seq, dat>>

NoSend == [kind |-> "none", len |-> 0]
NoneSent == [seq |-> 0, dat |-> <<>>, sum |-> 0]
NoRecv == [kind |-> "none", len |-> 0, addr |-> "", resp |-> NoResponse]
NoCall == [fn |-> "none", arg |-> <<>>, sum |-> 0, resp |-> NoResponse]

\* Before Icmp::new: no session, no socket.
NoSession ==
    /\ st = "start"
    /\ fault = "none"
    /\ sockOpen = FALSE
    /\ dst = ""
    /\ ver = "V4"
    /\ typ = 0
    /\ idt = 0
    /\ seq = 0
    /\ dat = <<>>
    /\ pc = "idle"
    /\ msg = <<>>
    /\ sres = NoSend
    /\ nsent = 0
    /\ sent = NoneSent
    /\ rres = NoRecv
    /\ ndisc = 0
    /\ rgot = <<>>
    /\ aiLive = FALSE

Init == NoSession /\ call = NoCall

\* ---------------------------------------------------------- Icmp::new
\* len: Option<usize>.
LenOpts == {[some |-> TRUE, n |-> k] : k \in 0..MaxLen} \cup {[some |-> FALSE, n |-> 0]}

\* Mutant of UnwrapOrDef: the default is the type's (unwrap_or_default).
UnwrapOrZero(len) == IF len.some THEN len.n ELSE 0

\* len.unwrap_or(DEFDATALEN)
UnwrapOrDef(len) == IF len.some THEN len.n ELSE DEFDATALEN

\* Mutant of New: the socket is held in a ManuallyDrop, so an unwinding
\* panic in the resolver closure leaves it open.
NewLeaksOnPanic(v, sockOK, hasNul, resolved, id, len) ==
    /\ st = "start"
    /\ IF ~sockOK
       THEN /\ st' = "err"
            /\ fault' = "socket_init"
            /\ UNCHANGED <<sockOpen, sessionVars>>
       ELSE IF hasNul \/ ~resolved
       THEN /\ st' = "panicked"
            /\ fault' = IF hasNul THEN "cstring_unwrap" ELSE "resolve_unwrap"
            /\ sockOpen' = TRUE
            /\ UNCHANGED sessionVars
       ELSE /\ st' = "open"
            /\ fault' = "none"
            /\ sockOpen' = TRUE
            /\ dst' \in DstAddrs
            /\ ver' = v
            /\ typ' = 8
            /\ idt' = id
            /\ seq' = 0
            /\ dat' = Zeros(UnwrapOrDef(len))
    /\ aiLive' = FALSE
    /\ UNCHANGED <<pc, msg, sres, nsent, sent, rres, ndisc, rgot, call>>

\* Icmp::new(ver, dst, idt, len).  The environment decides sockOK (Socket::new
\* succeeds for the domain of ver), hasNul (dst holds an interior NUL byte, so
\* CString::new(dst) is an Err) and resolved (getaddrinfo leaves a non-null
\* list for the family of ver).
\*   Socket::new(..)?      an Err is returned to the caller
\*   CString::new(dst).unwrap()   panics on an Err
\*   SockAddr::init(..).unwrap()  panics when the closure returned Err
\* A panic unwinds through new and drops the local sock.  Both versions take
\* the same path to Ok(Self { typ: 8, seq: 0, .. }).  getaddrinfo allocates
\* a list only when it resolves, and the closure then frees it
\* (freeaddrinfo) before it returns Ok: the list is live after new only on
\* a path that obtained it (res non-null) and did not pass freeaddrinfo
\* (res null).
New(v, sockOK, hasNul, resolved, id, len) ==
    /\ st = "start"
    /\ IF ~sockOK
       THEN /\ st' = "err"
            /\ fault' = "socket_init"
            /\ UNCHANGED <<sockOpen, sessionVars>>
       ELSE IF hasNul \/ ~resolved
       THEN /\ st' = "panicked"
            /\ fault' = IF hasNul THEN "cstring_unwrap" ELSE "resolve_unwrap"
            /\ sockOpen' = FALSE
            /\ UNCHANGED sessionVars
       ELSE /\ st' = "open"
            /\ fault' = "none"
            /\ sockOpen' = TRUE
            /\ dst' \in DstAddrs
            /\ ver' = v
            /\ typ' = 8
            /\ idt' = id
            /\ seq' = 0
            /\ dat' = Zeros(UnwrapOrDef(len))
    /\ aiLive' = (sockOK /\ ~hasNul /\ resolved /\ ~resolved)
    /\ UNCHANGED <<pc, msg, sres, nsent, sent, rres, ndisc, rgot, call>>

\* --------------------------------------------------------- Icmp::send
\* serialize_len()
serialize_len == 8 + Len(dat)

\* The buffer send builds with put_u8/put_u16/put_slice: the checksum
\* field still zero.
Encode == <<typ, 0>> \o U16ToBe(0) \o U16ToBe(idt) \o U16ToBe(seq) \o dat

\* buf[2] = sum[0]; buf[3] = sum[1], sum = checksum(&buf).to_be_bytes()
Patch(buf) ==
    LET sum == U16ToBe(checksum(buf))
    IN  [buf EXCEPT ![3] = sum[1], ![4] = sum[2]]

\* Mutant of NextSeq: the modulus is the size of the u16 range.
NextSeqMod65536(s) == (s + 1) % 65536

\* (self.seq + 1) % MAXSEQ
NextSeq(s) == (s + 1) % MAXSEQ

\* Mutant of Send: the sequence is advanced before send_to is tried, so a
\* failed send advances it too.
SendCountsAttempts(ok, wraps) ==
    /\ st = "open"
    /\ pc = "idle"
    /\ msg' = Patch(Encode)
    /\ sent' = [seq |-> seq, dat |-> dat, sum |-> checksum(Encode)]
    /\ seq' = NextSeq(seq)
    /\ sres' = IF ok THEN [kind |-> "ok", len |-> Len(Patch(Encode))]
                     ELSE [kind |-> "err", len |-> 0]
    /\ nsent' = IF ok THEN nsent + 1 ELSE nsent
    /\ UNCHANGED <<st, fault, sockOpen, dst, ver, typ, idt, dat, pc, rres, ndisc,
                   rgot, aiLive, call>>

\* Mutant of Send: the payload buffer is zeroed once it has been sent.
SendClearsPayload(ok, wraps) ==
    /\ st = "open"
    /\ pc = "idle"
    /\ msg' = Patch(Encode)
    /\ sent' = [seq |-> seq, dat |-> dat, sum |-> checksum(Encode)]
    /\ dat' = IF ok THEN Zeros(Len(dat)) ELSE dat
    /\ seq' = IF ok THEN NextSeq(seq) ELSE seq
    /\ sres' = IF ok THEN [kind |-> "ok", len |-> Len(Patch(Encode))]
                     ELSE [kind |-> "err", len |-> 0]
    /\ nsent' = IF ok THEN nsent + 1 ELSE nsent
    /\ UNCHANGED <<st, fault, sockOpen, dst, ver, typ, idt, pc, rres, ndisc,
                   rgot, aiLive, call>>

\* Icmp::send.  ok: send_to succeeds (it then reports the whole datagram
\* written).  self.seq + 1 is a u16 addition: at 65535 it panics where
\* overflow checks are on and wraps to 0 where they are off (wraps).
Send(ok, wraps) ==
    /\ st = "open"
    /\ pc = "idle"
    /\ msg' = Patch(Encode)
    /\ sent' = [seq |-> seq, dat |-> dat, sum |-> checksum(Encode)]
    /\ IF ~ok
       THEN /\ sres' = [kind |-> "err", len |-> 0]
            /\ UNCHANGED <<st, fault, seq, nsent>>
       ELSE IF seq + 1 > 65535 /\ ~wraps
       THEN /\ st' = "panicked"
            /\ fault' = "add_overflow"
            /\ UNCHANGED <<sres, seq, nsent>>
       ELSE /\ seq' = IF seq + 1 > 65535 THEN 0 % MAXSEQ ELSE NextSeq(seq)
            /\ sres' = [kind |-> "ok", len |-> Len(Patch(Encode))]
            /\ nsent' = nsent + 1
            /\ UNCHANGED <<st, fault>>
    /\ UNCHANGED <<sockOpen, dst, ver, typ, idt, dat, pc, rres, ndisc, rgot, aiLive,
                   call>>

\* Icmp::data_mut()[i] = b: the caller writes one payload byte.
Write(i, b) ==
    /\ st = "open"
    /\ pc = "idle"
    /\ i < Len(dat)
    /\ dat' = [dat EXCEPT ![i + 1] = b]
    /\ UNCHANGED <<st, fault, sockOpen, dst, ver, typ, idt, seq, pc, msg, sres,
                   nsent, sent, rres, ndisc, rgot, aiLive, call>>

\* --------------------------------------------------------- Icmp::recv
\* An echo message as a peer puts it on the wire: the 8-byte header with
\* its checksum filled in, then the payload.
IcmpMsg(t, id, sq, pl) ==
    LET b == <<t, 0, 0, 0>> \o U16ToBe(id) \o U16ToBe(sq) \o pl
        sum == U16ToBe(checksum(b))
    IN  [b EXCEPT ![3] = sum[1], ![4] = sum[2]]

\* An IPv4 datagram as the raw socket delivers it: the first byte holds the
\* version (4) in the high and the header length in words in the low four
\* bits, the rest of the 4 * ihl header bytes are not read by recv.
IpDatagram(ihl, icmp) == <<64 + ihl>> \o Zeros(4 * ihl - 1) \o icmp

\* Header lengths, in words, of the datagrams delivered.
IHLs == {5, 6}

\* (type, sequence, payload) of the messages delivered.
Templates == {<<0, 0, <<>> >>, <<0, 1, <<170>> >>, <<8, 258, <<170, 187>> >>}

\* Whole datagrams: for every identifier of Idents (so every session sees
\* matching and foreign ones), and one with the longest header and a
\* payload that the receive buffer of a short session cuts.
FullDatagrams ==
    {IpDatagram(h, IcmpMsg(t[1], id, t[2], t[3])) :
        h \in IHLs, id \in Idents, t \in Templates}
    \cup {IpDatagram(15, IcmpMsg(0, id, 2, <<1, 2, 3, 4>>)) : id \in Idents}

\* The first n bytes of d (all of d when it is shorter).
Take(d, n) == SubSeq(d, 1, IF n < Len(d) THEN n ELSE Len(d))

\* Datagrams cut short: empty, one byte, the IP header alone, and 4 to 7
\* bytes after it.
CutLens(d) ==
    LET h == 4 * (d[1] % 16) IN {0, 1, h, h + 4, h + 5, h + 6, h + 7}

ShortDatagrams ==
    {Take(d, n) : <<d, n>> \in {<<d, n>> \in (FullDatagrams \X (0..67)) : n \in CutLens(d) /\ d[1] % 16 # 15}}

\* What the socket may deliver to recv_from.
Datagrams == FullDatagrams \cup ShortDatagrams

\* Source addresses recv_from reports.
Addrs == {"192.0.2.1", "192.0.2.2"}

\* ip_hdr_len = 4 * (dat[0] & 0xf)
IpHdrLen(d) == 4 * (At(d, 0) % 16)

\* recv indexes dat[0] and dat[ip_hdr_len + 4..ip_hdr_len + 6] before it
\* compares the identifier: either out of range panics.
RecvIndexPanics(d) ==
    \/ Len(d) < 1
    \/ Len(d) < IpHdrLen(d) + 6

\* u16::from_be_bytes(dat[ip_hdr_len + 4..ip_hdr_len + 6])
IdentOf(d) == U16FromBe(At(d, IpHdrLen(d) + 4), At(d, IpHdrLen(d) + 5))

\* Mutant of IcmpPart: the IP header is not stripped.
IcmpPartWhole(d) == d

\* &dat[ip_hdr_len..]: what recv hands to Response::decode.
IcmpPart(d) == Slice(d, IpHdrLen(d), Len(d))

\* Icmp::recv up to the loop: the buffer is allocated.
RecvCall ==
    /\ st = "open"
    /\ pc = "idle"
    /\ pc' = "recv"
    /\ rres' = NoRecv
    /\ ndisc' = 0
    /\ rgot' = <<>>
    /\ UNCHANGED <<st, fault, sockOpen, sessionVars, msg, sres, nsent, sent, aiLive, call>>

\* One turn of the loop of recv in which recv_from succeeds.  The socket
\* delivers datagram g from addr a; recv_from stores at most the buffer's
\* MAXIPLEN + serialize_len() bytes of it and reports that length.
RecvRead(g, a) ==
    LET d == Take(g, MAXIPLEN + serialize_len)
    IN  /\ st = "open"
        /\ pc = "recv"
        /\ IF RecvIndexPanics(d)
           THEN /\ st' = "panicked"
                /\ fault' = "recv_index"
                /\ UNCHANGED <<pc, rres, ndisc, rgot>>
           ELSE IF IdentOf(d) # idt
           THEN /\ ndisc < MaxDiscard
                /\ ndisc' = ndisc + 1
                /\ UNCHANGED <<st, fault, pc, rres, rgot>>
           ELSE IF DecodePanics(IcmpPart(d))
           THEN /\ st' = "panicked"
                /\ fault' = "decode_index"
                /\ UNCHANGED <<pc, rres, ndisc, rgot>>
           ELSE /\ rres' = [kind |-> "ok", len |-> Len(d), addr |-> a,
                            resp |-> decode(IcmpPart(d))]
                /\ rgot' = d
                /\ pc' = "idle"
                /\ UNCHANGED <<st, fault, ndisc>>
        /\ UNCHANGED <<sockOpen, sessionVars, msg, sres, nsent, sent, aiLive, call>>

\* One turn of the loop in which recv_from fails: the ? returns the error.
RecvFail ==
    /\ st = "open"
    /\ pc = "recv"
    /\ rres' = [NoRecv EXCEPT !.kind = "err"]
    /\ pc' = "idle"
    /\ UNCHANGED <<st, fault, sockOpen, sessionVars, msg, sres, nsent, sent, ndisc,
                   rgot, aiLive, call>>

\* ------------------------------------------- direct calls of the codec
\* Buffers handed directly to checksum and Response::decode.
CodecInputs ==
    UNION {[1..n -> ByteVals] : n \in 0..MaxBuf}
    \cup {<<8, 0, 0, 0, 18, 52, 0, 1>> \o Zeros(8)}

\* checksum(call.arg), called on a buffer the caller holds.
ChecksumCall ==
    /\ st # "panicked"
    /\ call.fn = "none"
    /\ call' = [call EXCEPT !.fn = "checksum", !.sum = checksum(call.arg)]
    /\ UNCHANGED <<st, fault, sockOpen, sessionVars, pc, msg, sres, nsent, sent, rres,
                   ndisc, rgot, aiLive>>

\* Response::decode(call.arg), called on a buffer the caller holds.
DecodeCall ==
    /\ st # "panicked"
    /\ call.fn = "none"
    /\ IF DecodePanics(call.arg)
       THEN /\ st' = "panicked"
            /\ fault' = "decode_index"
            /\ call' = [call EXCEPT !.fn = "decode"]
       ELSE /\ call' = [call EXCEPT !.fn = "decode", !.resp = decode(call.arg)]
            /\ UNCHANGED <<st, fault>>
    /\ UNCHANGED <<sockOpen, sessionVars, pc, msg, sres, nsent, sent, rres, ndisc,
                   rgot, aiLive>>

\* ----------------------------------------------------- specifications
NewStep ==
    \E v \in {"V4", "V6"}, sockOK \in BOOLEAN, hasNul \in BOOLEAN,
       resolved \in BOOLEAN, id \in Idents, len \in LenOpts :
        New(v, sockOK, hasNul, resolved, id, len)

SendStep == \E ok \in BOOLEAN, wraps \in BOOLEAN : Send(ok, wraps)

WriteStep == \E i \in 0..(MaxWrite - 1), b \in PayloadVals : Write(i, b)

RecvReadStep == \E g \in Datagrams, a \in Addrs : RecvRead(g, a)

\* One session: construction, then sends, payload writes and receives in
\* any order, the sends bounded.
Next ==
    \/ NewStep
    \/ (nsent < MaxSends /\ SendStep)
    \/ WriteStep
    \/ RecvCall
    \/ RecvReadStep
    \/ RecvFail

Spec == Init /\ [][Next]_vars

\* A session as Icmp::new(V4, dst, 0x1234, Some(0)) returns it, then sends
\* only: long enough to pass the wraparound of the sequence.
InitWrap ==
    /\ st = "open"
    /\ fault = "none"
    /\ sockOpen = TRUE
    /\ dst \in DstAddrs
    /\ ver = "V4"
    /\ typ = 8
    /\ idt = 4660
    /\ seq = 0
    /\ dat = <<>>
    /\ pc = "idle"
    /\ msg = <<>>
    /\ sres = NoSend
    /\ nsent = 0
    /\ sent = NoneSent
    /\ rres = NoRecv
    /\ ndisc = 0
    /\ rgot = <<>>
    /\ aiLive = FALSE
    /\ call = NoCall

NextWrap == nsent < MaxWrapSends /\ SendStep

SpecWrap == InitWrap /\ [][NextWrap]_vars

\* The pure functions, each applied once to a buffer drawn from CodecInputs.
InitCodec == NoSession /\ call \in {[NoCall EXCEPT !.arg = b] : b \in CodecInputs}

NextCodec == ChecksumCall \/ DecodeCall

SpecCodec == InitCodec /\ [][NextCodec]_vars

\* ============================================================== claims

\* C1 (as claimed; refuted under SpecWrap): the session sequence is the
\* number of successful sends modulo 65536, so the n-th successful send
\* transmits (n - 1) mod 65536 and the sequence is back at 0 only after
\* 65536 successful sends.
C1_SeqIsSendsMod65536 == st = "open" => seq = nsent % 65536

\* C2 (as claimed; refuted under Spec): Icmp::new with Version::V6 never
\* returns a usable session, so a V6 session is never open.
C2_V6NeverOpens == ~(st = "open" /\ ver = "V6")

\* C3 (as claimed; refuted under SpecCodec): Response::decode on a buffer of
\* fewer than 8 bytes returns an error to its caller and never aborts it.
C3_ShortDecodeReturnsError ==
    (call.fn = "decode" /\ Len(call.arg) < 8) => st # "panicked"

\* The RFC 1071 checksum, written independently of the code: the sum of
\* all 16-bit big-endian words of the buffer, a trailing odd byte taken as
\* the high byte of a last word, reduced with end-around carry, then
\* complemented.
RECURSIVE RfcSum(_, _)
RfcSum(bytes, k) ==
    IF k > Len(bytes) THEN 0
    ELSE (bytes[k] * 256 + (IF k + 1 <= Len(bytes) THEN bytes[k + 1] ELSE 0))
         + RfcSum(bytes, k + 2)

Rfc1071(bytes) ==
    LET total == RfcSum(bytes, 1)
    IN  65535 - (IF total = 0 THEN 0 ELSE ((total - 1) % 65535) + 1)

\* C4 (as claimed; refuted under SpecCodec): for every buffer of at least 4
\* bytes whose checksum field (bytes 2-3) is zero, of even or odd length,
\* checksum returns the RFC 1071 checksum of the whole buffer.
C4_ChecksumIsRfc1071 ==
    (call.fn = "checksum" /\ Len(call.arg) >= 4
        /\ At(call.arg, 2) = 0 /\ At(call.arg, 3) = 0)
    => call.sum = Rfc1071(call.arg)

\* The echo request of C5: type 8, code 0, zero checksum field, identifier
\* 0x1234, sequence 1, eight zero payload bytes.
C5Buf == <<8, 0, 0, 0, 18, 52, 0, 1>> \o Zeros(8)

\* C5 (as claimed; refuted under SpecCodec): checksum of C5Buf is 0xE5CB
\* (58827).
C5_ChecksumIsE5CB ==
    (call.fn = "checksum" /\ call.arg = C5Buf) => call.sum = 58827

\* C5 (amended): checksum of C5Buf is 0xE5CA (58826), which is also its
\* RFC 1071 checksum.
C5_ChecksumIsE5CA ==
    (call.fn = "checksum" /\ call.arg = C5Buf)
    => (call.sum = 58826 /\ call.sum = Rfc1071(C5Buf))

\* C5 witness: checksum has been applied to C5Buf.
C5_Witness == call.fn = "checksum" /\ call.arg = C5Buf

\* C6: the buffer a send handed to send_to is one that Response::decode
\* takes back to kind 8, code 0, the session identifier, the sequence and
\* the payload the send encoded, and the checksum it patched into bytes 2-3.
C6_RoundTrip ==
    msg # <<>> =>
        /\ ~DecodePanics(msg)
        /\ decode(msg) = [typ |-> 8, cod |-> 0, sum |-> sent.sum,
                          idt |-> idt, seq |-> sent.seq, dat |-> sent.dat]

\* C6 witness: a message was sent with a non-zero sequence and a payload
\* holding a non-zero byte.
C6_Witness ==
    /\ sres.kind = "ok"
    /\ Len(msg) > 8
    /\ decode(msg).seq > 0
    /\ \E i \in 1..Len(decode(msg).dat) : decode(msg).dat[i] # 0

\* The datagram holds the two identifier bytes recv reads.
HasIdentField(d) == Len(d) >= 1 /\ Len(d) >= IpHdrLen(d) + 6

\* C7 (as claimed; refuted under Spec): of the datagrams that hold an
\* identifier field, recv discards each one whose identifier differs from
\* the session's, without error, and returns the one whose identifier
\* equals it: its length, its source and its decoded reply.
C7_IdentifierFilter ==
    [][\A g \in Datagrams, a \in Addrs :
        LET d == Take(g, MAXIPLEN + serialize_len)
        IN  (RecvRead(g, a) /\ HasIdentField(d)) =>
              IF IdentOf(d) = idt
              THEN /\ st' = "open"
                   /\ pc' = "idle"
                   /\ rres'.kind = "ok"
                   /\ rres'.len = Len(d)
                   /\ rres'.addr = a
                   /\ rres'.resp.idt = idt
              ELSE /\ st' = "open"
                   /\ pc' = "recv"
                   /\ rres' = rres
                   /\ ndisc' = ndisc + 1]_vars

\* C8 (as claimed; refuted under Spec): a datagram too short to hold an
\* identifier never makes recv abort; it is filtered.
C8_ShortDatagramIsFiltered ==
    ~(pc = "recv" /\ st = "panicked" /\ fault = "recv_index")

\* C9: the sequence counts the successful sends (no wraparound within
\* MaxSends sends); after a failed send the sequence is still the one the
\* failed attempt carried, so the next send carries it again; after a
\* successful send it is the successor of the one sent.
C9_SeqChangesOnlyOnSuccess ==
    st = "open" =>
        /\ seq = nsent
        /\ sres.kind = "err" => decode(msg).seq = seq
        /\ sres.kind = "ok" => seq = NextSeq(decode(msg).seq)

\* C9 witness: a send failed after an earlier one succeeded.
C9_Witness == st = "open" /\ sres.kind = "err" /\ nsent >= 1 /\ decode(msg).seq = nsent

\* C10 (as claimed; refuted under Spec): when the destination cannot be
\* resolved, Icmp::new returns an Err to its caller and does not panic.
C10_UnresolvedIsErr == fault = "resolve_unwrap" => st = "err"

\* -------------------------------------------- recv under a fair socket
\* One turn of the loop of recv in which the socket delivers a datagram
\* that carries the session identifier.
RecvMatchStep ==
    \E g \in Datagrams, a \in Addrs :
        /\ HasIdentField(Take(g, MAXIPLEN + serialize_len))
        /\ IdentOf(Take(g, MAXIPLEN + serialize_len)) = idt
        /\ RecvRead(g, a)

\* The session with a socket whose reads never fail.
NextLive ==
    \/ NewStep
    \/ (nsent < MaxSends /\ SendStep)
    \/ WriteStep
    \/ RecvCall
    \/ RecvReadStep

\* The hypothesis of C11: no read fails, and while recv waits the socket
\* does deliver a datagram that carries the session identifier.
SpecLive == Init /\ [][NextLive]_vars /\ WF_vars(RecvMatchStep)

\* C11 (as claimed; refuted under SpecLive): when no read fails and the
\* socket delivers a datagram carrying the session identifier, a recv that
\* is waiting eventually returns a reply with that identifier.
C11_RecvEventuallyReturns ==
    (pc = "recv") ~> (pc = "idle" /\ rres.kind = "ok" /\ rres.resp.idt = idt)

\* C12: when recv returns from a datagram whose first byte declares a
\* header of L words, L in 5..15, with at least 8 bytes after the header,
\* the reply's type, code, checksum, identifier and sequence are the bytes
\* at 4L .. 4L+7 of the datagram, the identifier is the session's, the data
\* are the bytes from 4L+8 on (received length - 4L - 8 of them) and the
\* returned length is the whole received length.
C12_HeaderStrip ==
    LET L == rgot[1] % 16
        h == 4 * (rgot[1] % 16)
    IN  (rres.kind = "ok" /\ L \in 5..15 /\ Len(rgot) >= h + 8) =>
            /\ rres.len = Len(rgot)
            /\ rres.resp.typ = rgot[h + 1]
            /\ rres.resp.cod = rgot[h + 2]
            /\ rres.resp.sum = rgot[h + 3] * 256 + rgot[h + 4]
            /\ rres.resp.idt = rgot[h + 5] * 256 + rgot[h + 6]
            /\ rres.resp.idt = idt
            /\ rres.resp.seq = rgot[h + 7] * 256 + rgot[h + 8]
            /\ Len(rres.resp.dat) = rres.len - h - 8
            /\ rres.resp.dat = SubSeq(rgot, h + 9, Len(rgot))

\* C12 witness: recv returned from a datagram with a 24-byte header (L = 6,
\* IP options) that carries data after the ICMP header.
C12_Witness ==
    /\ rres.kind = "ok"
    /\ rgot[1] % 16 = 6
    /\ Len(rres.resp.dat) > 0
    /\ rres.resp.seq > 0

\* b with its bytes 2 and 3 replaced by x and y.
WithField(b, x, y) == [b EXCEPT ![3] = x, ![4] = y]

\* C13: checksum does not read bytes 2-3: for a buffer of at least 4 bytes
\* it returns the same value whatever these two bytes are replaced by, in
\* particular after its own result is written into them big-endian, so the
\* patched buffer carries in bytes 2-3 exactly what checksum returns for it.
C13_ChecksumSkipsField ==
    (call.fn = "checksum" /\ Len(call.arg) >= 4) =>
        /\ \A x \in ByteVals \cup {18, 128}, y \in ByteVals \cup {52, 128} :
              checksum(WithField(call.arg, x, y)) = call.sum
        /\ checksum(Patch(call.arg)) = call.sum
        /\ U16FromBe(At(Patch(call.arg), 2), At(Patch(call.arg), 3))
              = checksum(Patch(call.arg))

\* C13 witness: checksum was applied to a buffer whose bytes 2-3 are not
\* zero and whose result is not zero either.
C13_Witness ==
    /\ call.fn = "checksum"
    /\ Len(call.arg) >= 6
    /\ At(call.arg, 2) # 0
    /\ At(call.arg, 3) # 0
    /\ call.sum # 0
    /\ call.sum # 65535

\* C14: in an open session the identifier, the destination, the version,
\* the type and the length of the payload buffer never change.  A step of
\* send (one that sets what was sent or returned, or the sequence) leaves
\* the payload buffer as it is and transmits that buffer and the session
\* identifier.  A step of recv (entering the loop, or inside it) changes
\* neither the session nor anything send has set.
C14_Frame ==
    [][st = "open" =>
        /\ idt' = idt /\ dst' = dst /\ ver' = ver /\ typ' = typ
        /\ Len(dat') = Len(dat)
        /\ (msg' # msg \/ sent' # sent \/ sres' # sres \/ seq' # seq) =>
              /\ dat' = dat
              /\ SubSeq(msg', 9, Len(msg')) = dat
              /\ msg'[5] * 256 + msg'[6] = idt
        /\ (pc = "recv" \/ pc' = "recv") =>
              /\ seq' = seq /\ dat' = dat
              /\ msg' = msg /\ sres' = sres /\ nsent' = nsent]_vars

\* C14 witness: a payload the caller wrote was sent, a reply was received,
\* and the caller has written the buffer again since.
C14_Witness ==
    /\ sres.kind = "ok"
    /\ rres.kind = "ok"
    /\ Len(msg) > 8
    /\ msg[9] # 0
    /\ dat # SubSeq(msg, 9, Len(msg))

\* C15: every buffer send hands to send_to is 8 + payload length bytes
\* long, with byte 0 = 8, byte 1 = 0, bytes 4-5 the identifier and bytes
\* 6-7 the sequence it encoded, both big-endian, and the payload buffer
\* from byte 8 on.  Icmp::new without a payload length returns a session
\* with a payload buffer of 56 zero bytes and sequence 0, and the first
\* message of such a session is 64 bytes long with sequence 0.
C15_Layout ==
    [][/\ msg' # <<>> =>
            /\ Len(msg') = 8 + Len(dat')
            /\ msg'[1] = 8
            /\ msg'[2] = 0
            /\ msg'[5] = idt' \div 256 /\ msg'[6] = idt' % 256
            /\ msg'[7] = sent'.seq \div 256 /\ msg'[8] = sent'.seq % 256
            /\ SubSeq(msg', 9, Len(msg')) = sent'.dat
       /\ \A v \in {"V4", "V6"}, id \in Idents :
            New(v, TRUE, FALSE, TRUE, id, [some |-> FALSE, n |-> 0]) =>
                /\ dat' = [i \in 1..56 |-> 0]
                /\ seq' = 0
       /\ (msg = <<>> /\ msg' # <<>> /\ Len(dat) = 56) =>
            /\ Len(msg') = 64
            /\ sent'.seq = 0]_vars

\* C15 witness: a session constructed without a payload length has sent
\* its first message, 64 bytes long.
C15_Witness ==
    /\ st = "open"
    /\ Len(dat) = 56
    /\ nsent = 1
    /\ sres.kind = "ok"
    /\ Len(msg) = 64

\* C16: after Icmp::new has failed (socket creation denied, destination
\* not resolvable or not a C string) no socket opened by the call is open;
\* no address list obtained from the resolver is left unfreed; and a
\* socket is open only if a session owning it was returned.
C16_Release ==
    /\ fault \in {"socket_init", "cstring_unwrap", "resolve_unwrap"} =>
          /\ st \in {"err", "panicked"}
          /\ ~sockOpen
    /\ ~aiLive
    /\ sockOpen =>
          /\ st # "start"
          /\ dst \in DstAddrs
          /\ idt \in Idents

\* C16 witness: the socket was created and the destination did not
\* resolve; new has unwound and the socket is closed.
C16_Witness ==
    /\ st = "panicked"
    /\ fault = "resolve_unwrap"
    /\ ~sockOpen
    /\ dst = ""

\* C17: in every state reachable from construction by successful and
\* failed sends the session sequence is at most 65534, so the u16 addition
\* self.seq + 1 in send stays within 65535: it never panics and never
\* wraps before the modulo is applied.
C17_SeqBelowMax ==
    /\ seq <= 65534
    /\ seq + 1 <= 65535
    /\ st # "panicked"
    /\ fault # "add_overflow"

\* C17 witness: 65535 sends have succeeded, the last of them from
\* sequence 65534, and the sequence is back at 0.
C17_Witness ==
    /\ st = "open"
    /\ nsent = 65535
    /\ sent.seq = 65534
    /\ sres.kind = "ok"
    /\ seq = 0

====
